---- MODULE Spec2Model ----
(***************************************************************************)
(* A model of dental_clinic_experience_bot.py: the two conversation flows  *)
(* (add experience, view experiences) of the aiogram dispatcher, the       *)
(* per-user session kept by MemoryStorage (state + draft data), and the    *)
(* SQLite store (tables clinics and experiences).                          *)
(*                                                                         *)
(* Texts are sequences of one-character strings, so that str.strip(),      *)
(* str.split()[0], str.lower() and strptime are computed, not assumed.     *)
(* Persian letters are written with one lower-case Latin letter each:      *)
(*   l g v  = the cancel phrase        q m / y z d = two of the PROVINCES  *)
(*   b l h / x y r = CONTRACT_OPTIONS  n a m s x c / n a m e l v m = the   *)
(*   two "unknown end date" tokens     r d _ s d n  = the skip phrase      *)
(***************************************************************************)
EXTENDS Integers, Sequences, FiniteSets, TLC

(***************************************************************************)
(* Bounds of the model.                                                    *)
(***************************************************************************)
\* experience rows the store may hold before commits stop being explored
MaxExperiences == 2
\* concurrent callers of get_or_create_clinic in SpecRace
MaxCallers == 2
\* the length of the longest comment a user sends (Telegram carries up to 4096)
RunLen == 4000
\* the length of a comment that fills about half a page of the detail view
MidLen == 1800
\* experience rows of the store contents the read-only specifications start from
MaxRows == 3

(***************************************************************************)
(* Texts.                                                                  *)
(***************************************************************************)
SP == " "
Whitespace == {SP}

\* the Python None (a value no text is equal to)
None == <<"None">>

T_A == <<"A">>
T_A_padded == <<SP, "A", SP>>
T_X == <<"X">>
T_ok == <<"o", "k">>
T_good == <<"g", "o", "o", "d">>
T_junk == <<"?">>
\* one element that stands for a run of RunLen filler characters
RUN == "~"
T_long == <<RUN>>
\* one element that stands for a run of MidLen filler characters
MID == "="
T_mid == <<MID>>

T_cmd_start == <<"/", "s", "t", "a", "r", "t">>
T_cmd_cancel == <<"/", "c", "a", "n", "c", "e", "l">>
T_cmd_add == <<"/", "a", "d", "d", "_", "e", "x", "p", "e", "r", "i", "e", "n", "c", "e">>
T_cmd_view == <<"/", "v", "i", "e", "w", "_", "e", "x", "p", "e", "r", "i", "e", "n", "c", "e", "s">>

T_cancel_phrase == <<"l", "g", "v">>

T_qom == <<"q", "m">>
T_qom_padded == <<SP, "q", "m">>
T_yazd == <<"y", "z", "d">>
\* the modelled part of the 31-entry PROVINCES list
PROVINCES == {T_qom, T_yazd}

T_yes == <<"b", "l", "h">>
T_no == <<"x", "y", "r">>
CONTRACT_OPTIONS == {T_yes, T_no}

T_unknown1 == <<"n", "a", "m", "s", "x", "c">>
T_unknown2 == <<"n", "a", "m", "e", "l", "v", "m">>
UNKNOWN_TOKENS == {T_unknown1, T_unknown2}

T_skip == <<"r", "d", SP, "s", "d", "n">>

T_date_leap == <<"2", "0", "2", "4", "-", "0", "2", "-", "2", "9">>
T_date_noleap == <<"2", "0", "2", "3", "-", "0", "2", "-", "2", "9">>
T_date_short == <<"2", "0", "2", "4", "-", "2", "-", "9">>

T_1 == <<"1">>
T_5 == <<"5">>
T_0 == <<"0">>
T_6 == <<"6">>
T_5_padded == <<SP, "5">>

(***************************************************************************)
(* str.strip(), str.lower(), str.split()[0].                               *)
(***************************************************************************)
RECURSIVE LStrip(_)
LStrip(t) ==
    IF t = <<>> THEN <<>>
    ELSE IF Head(t) \in Whitespace THEN LStrip(Tail(t))
    ELSE t

RECURSIVE RStrip(_)
RStrip(t) ==
    IF t = <<>> THEN <<>>
    ELSE IF t[Len(t)] \in Whitespace THEN RStrip(SubSeq(t, 1, Len(t) - 1))
    ELSE t

Strip(t) == RStrip(LStrip(t))

LowerChar(c) ==
    CASE c = "A" -> "a"
      [] c = "B" -> "b"
      [] c = "X" -> "x"
      [] OTHER -> c

Lower(t) == [i \in 1..Len(t) |-> LowerChar(t[i])]

RECURSIVE TakeWord(_)
TakeWord(t) ==
    IF t = <<>> \/ Head(t) \in Whitespace THEN <<>>
    ELSE <<Head(t)>> \o TakeWord(Tail(t))

\* text.split()[0]; <<>> when the text holds no word
FirstWord(t) == TakeWord(LStrip(t))

\* aiogram's Command filter: first word, prefix "/", name compared lower-cased
IsCommand(t, name) ==
    LET w == FirstWord(t)
    IN  /\ w # <<>>
        /\ Head(w) = "/"
        /\ Lower(Tail(w)) = name

(***************************************************************************)
(* _valid_date: datetime.strptime(t, "%Y-%m-%d") does not raise.           *)
(***************************************************************************)
Digits == {"0", "1", "2", "3", "4", "5", "6", "7", "8", "9"}

DigitVal(c) ==
    CASE c = "0" -> 0 [] c = "1" -> 1 [] c = "2" -> 2 [] c = "3" -> 3
      [] c = "4" -> 4 [] c = "5" -> 5 [] c = "6" -> 6 [] c = "7" -> 7
      [] c = "8" -> 8 [] c = "9" -> 9

IsDigit(t, i) == i <= Len(t) /\ t[i] \in Digits

IsLeap(y) == y % 4 = 0 /\ (y % 100 # 0 \/ y % 400 = 0)

DaysInMonth(y, m) ==
    IF m = 2 THEN (IF IsLeap(y) THEN 29 ELSE 28)
    ELSE IF m \in {4, 6, 9, 11} THEN 30
    ELSE 31

\* %m is the regex 1[0-2]|0[1-9]|[1-9]: the number of characters it takes at i (0: none)
MonthWidth(t, i) ==
    IF IsDigit(t, i) /\ t[i] = "1" /\ IsDigit(t, i + 1) /\ t[i + 1] \in {"0", "1", "2"} THEN 2
    ELSE IF IsDigit(t, i) /\ t[i] = "0" /\ IsDigit(t, i + 1) /\ t[i + 1] # "0" THEN 2
    ELSE IF IsDigit(t, i) /\ t[i] # "0" THEN 1
    ELSE 0

\* %d is the regex 3[0-1]|[1-2]\d|0[1-9]|[1-9]| [1-9]
DayWidth(t, i) ==
    IF IsDigit(t, i) /\ t[i] = "3" /\ IsDigit(t, i + 1) /\ t[i + 1] \in {"0", "1"} THEN 2
    ELSE IF IsDigit(t, i) /\ t[i] \in {"1", "2"} /\ IsDigit(t, i + 1) THEN 2
    ELSE IF IsDigit(t, i) /\ t[i] = "0" /\ IsDigit(t, i + 1) /\ t[i + 1] # "0" THEN 2
    ELSE IF IsDigit(t, i) /\ t[i] # "0" THEN 1
    ELSE IF i <= Len(t) /\ t[i] = SP /\ IsDigit(t, i + 1) /\ t[i + 1] # "0" THEN 2
    ELSE 0

\* the number a run of digits (and a leading space) stands for
RECURSIVE NumVal(_)
NumVal(t) ==
    IF t = <<>> THEN 0
    ELSE IF t[Len(t)] \in Digits
         THEN 10 * NumVal(SubSeq(t, 1, Len(t) - 1)) + DigitVal(t[Len(t)])
         ELSE NumVal(SubSeq(t, 1, Len(t) - 1))

valid_date(t) ==
    /\ IsDigit(t, 1) /\ IsDigit(t, 2) /\ IsDigit(t, 3) /\ IsDigit(t, 4)
    /\ Len(t) >= 5 /\ t[5] = "-"
    /\ LET mw == MonthWidth(t, 6)
       IN  /\ mw > 0
           /\ Len(t) >= 6 + mw /\ t[6 + mw] = "-"
           /\ LET dw == DayWidth(t, 7 + mw)
                  y == NumVal(SubSeq(t, 1, 4))
                  m == NumVal(SubSeq(t, 6, 5 + mw))
              IN  /\ dw > 0
                  \* "unconverted data remains"
                  /\ Len(t) = 6 + mw + dw
                  \* datetime's own range checks
                  /\ y >= 1
                  /\ NumVal(SubSeq(t, 7 + mw, 6 + mw + dw)) <= DaysInMonth(y, m)

(***************************************************************************)
(* int(text): optional sign, then decimal digits; anything else raises.    *)
(***************************************************************************)
IntBody(t) == IF t # <<>> /\ Head(t) \in {"+", "-"} THEN Tail(t) ELSE t

IsInt(t) ==
    LET b == IntBody(Strip(t))
    IN  b # <<>> /\ \A i \in 1..Len(b) : b[i] \in Digits

IntVal(t) ==
    LET s == Strip(t)
    IN  IF s # <<>> /\ Head(s) = "-" THEN 0 - NumVal(IntBody(s)) ELSE NumVal(IntBody(s))

(***************************************************************************)
(* The conversation states (AddExperienceStates, ViewExperienceStates) and *)
(* the draft field each add-flow state fills.                              *)
(***************************************************************************)
NoState == "None"

AddOrder ==
    << "waiting_for_clinic_name", "waiting_for_province", "waiting_for_city",
       "waiting_for_start_date", "waiting_for_end_date", "waiting_for_payment",
       "waiting_for_contract", "waiting_for_patient_culture",
       "waiting_for_patient_count", "waiting_for_insurance_status",
       "waiting_for_environment", "waiting_for_rating", "waiting_for_comment" >>

AddFields ==
    << "clinic_name", "province", "city", "start_date", "end_date", "payment",
       "contract_signed", "patient_culture", "patient_count", "insurance_status",
       "environment", "rating", "comment" >>

AddStates == {AddOrder[i] : i \in 1..Len(AddOrder)}

ViewProvince == "view:waiting_for_province"
ViewSelection == "view:waiting_for_clinic_selection"
ViewStates == {ViewProvince, ViewSelection}

States == {NoState} \cup AddStates \cup ViewStates

\* the position of an add-flow state in the class body
AddIndex(st) == CHOOSE i \in 1..Len(AddOrder) : AddOrder[i] = st

\* the users whose sessions MemoryStorage holds
Users == {101}

(***************************************************************************)
(* The store.  clinics: a set of rows; experiences: the rows in insertion  *)
(* order (the AUTOINCREMENT id is the position).                           *)
(***************************************************************************)
Max(S) == IF S = {} THEN 0 ELSE CHOOSE x \in S : \A y \in S : y <= x

StripTriple(n, p, c) == <<Strip(n), Strip(p), Strip(c)>>

\* SELECT id FROM clinics WHERE name=? AND province=? AND city=?
SelectClinicIds(cl, trip) ==
    {r.id : r \in {x \in cl : <<x.name, x.province, x.city>> = trip}}

\* INSERT INTO clinics ... under UNIQUE(name,province,city) ON CONFLICT IGNORE,
\* on a connection that has inserted nothing before: lastrowid is 0 when the
\* row is ignored
InsertClinic(cl, trip) ==
    IF SelectClinicIds(cl, trip) # {}
    THEN [clinics |-> cl, lastrowid |-> 0]
    ELSE LET id == Max({r.id : r \in cl}) + 1
         IN  [clinics |-> cl \cup {[id |-> id, name |-> trip[1],
                                    province |-> trip[2], city |-> trip[3]]},
              lastrowid |-> id]

\* the INSERT alone, without the SELECT before it
get_or_create_clinic_insert_only(cl, n, p, c) ==
    LET ins == InsertClinic(cl, StripTriple(n, p, c))
    IN  [clinics |-> ins.clinics, cid |-> ins.lastrowid]

\* the SELECT run on the arguments as given, the INSERT on the trimmed ones
get_or_create_clinic_raw_select(cl, n, p, c) ==
    LET ids == SelectClinicIds(cl, <<n, p, c>>)
    IN  IF ids # {}
        THEN [clinics |-> cl, cid |-> CHOOSE i \in ids : TRUE]
        ELSE LET ins == InsertClinic(cl, StripTriple(n, p, c))
             IN  [clinics |-> ins.clinics, cid |-> ins.lastrowid]

get_or_create_clinic(cl, n, p, c) ==
    LET trip == StripTriple(n, p, c)
        ids == SelectClinicIds(cl, trip)
    IN  IF ids # {}
        THEN [clinics |-> cl, cid |-> CHOOSE i \in ids : TRUE]
        ELSE LET ins == InsertClinic(cl, trip)
             IN  [clinics |-> ins.clinics, cid |-> ins.lastrowid]

\* dict.get(k): None when the key is absent
Get(d, k) == IF k \in DOMAIN d THEN d[k] ELSE None

\* d[k] = v
Put(d, k, v) == [x \in (DOMAIN d) \cup {k} |-> IF x = k THEN v ELSE d[x]]

EmptyDraft == [x \in {} |-> None]

\* the row save_experience inserts (created_at is the column default)
ExperienceRow(d, id, at) ==
    [ id |-> id, clinic_id |-> d["clinic_id"], user_id |-> d["user_id"],
      start_date |-> Get(d, "start_date"), end_date |-> Get(d, "end_date"),
      payment |-> Get(d, "payment"), contract_signed |-> Get(d, "contract_signed"),
      patient_culture |-> Get(d, "patient_culture"),
      patient_count |-> Get(d, "patient_count"),
      insurance_status |-> Get(d, "insurance_status"),
      environment |-> Get(d, "environment"), rating |-> Get(d, "rating"),
      comment |-> IF "comment" \in DOMAIN d THEN d["comment"] ELSE <<>>,
      created_at |-> at ]

\* PRAGMA foreign_keys = 1: the insert raises unless clinic_id names a clinic
ForeignKeyOk(cl, d) == \E r \in cl : r.id = d["clinic_id"]

save_experience(ex, d, at) == Append(ex, ExperienceRow(d, Len(ex) + 1, at))

\* CURRENT_TIMESTAMP has a one-second grain: a row is stamped with the second
\* of the newest row, or a later one
Timestamps(ex) ==
    LET last == IF ex = <<>> THEN 0 ELSE ex[Len(ex)].created_at
    IN  IF last = 0 THEN {1} ELSE {last, last + 1}

\* SELECT name,province,city FROM clinics WHERE id=?
get_clinic_by_id(cl, cid) == {r \in cl : r.id = cid}

(***************************************************************************)
(* Sequences over a finite set.                                            *)
(***************************************************************************)
RECURSIVE Perms(_)
Perms(S) ==
    IF S = {} THEN {<<>>}
    ELSE UNION {{<<x>> \o q : q \in Perms(S \ {x})} : x \in S}

RECURSIVE SumOver(_, _)
SumOver(f, S) ==
    IF S = {} THEN 0
    ELSE LET x == CHOOSE y \in S : TRUE IN f[x] + SumOver(f, S \ {x})

\* len(text)
TextLen(t) ==
    SumOver([i \in 1..Len(t) |-> IF t[i] = RUN THEN RunLen ELSE IF t[i] = MID THEN MidLen ELSE 1],
            1..Len(t))

(***************************************************************************)
(* stars(a): a is given in tenths (a one-decimal number times 10).         *)
(***************************************************************************)
Repeat(c, n) == [i \in 1..n |-> c]

\* stars without the half symbol
stars_without_half(a10) ==
    LET f == a10 \div 10
        e == 5 - f
    IN  Repeat("*", f) \o Repeat(".", IF e > 0 THEN e ELSE 0)

stars(a10) ==
    LET f == a10 \div 10
        h == IF a10 % 10 >= 5 THEN 1 ELSE 0
        e == 5 - f - h
    IN  Repeat("*", f) \o (IF h = 1 THEN <<"+">> ELSE <<>>) \o Repeat(".", IF e > 0 THEN e ELSE 0)

(***************************************************************************)
(* clinic_stats_by_province.                                               *)
(***************************************************************************)
ExperiencesOf(ex, cid) == {i \in 1..Len(ex) : ex[i].clinic_id = cid}

\* COALESCE(ROUND(AVG(ex.rating),1),0), in tenths
AvgTenths(ex, cid) ==
    LET S == ExperiencesOf(ex, cid)
        n == Cardinality(S)
        sum == SumOver([i \in 1..Len(ex) |-> ex[i].rating], S)
    IN  IF n = 0 THEN 0 ELSE (20 * sum + n) \div (2 * n)

StatsRow(cl_row, ex) ==
    [ cid |-> cl_row.id, name |-> cl_row.name, city |-> cl_row.city,
      avg |-> AvgTenths(ex, cl_row.id),
      count |-> Cardinality(ExperiencesOf(ex, cl_row.id)) ]

\* the query written with an inner join: a clinic without experiences has no row
clinic_stats_by_province_inner_join(cl, ex, p) ==
    LET rows == {StatsRow(r, ex) : r \in {x \in cl : /\ x.province = Strip(p)
                                                     /\ ExperiencesOf(ex, x.id) # {}}}
    IN  {q \in Perms(rows) : \A i \in 1..(Len(q) - 1) : q[i].avg >= q[i + 1].avg}

\* every order the query may return its rows in: ORDER BY 4 DESC leaves the
\* order of equal averages open
clinic_stats_by_province(cl, ex, p) ==
    LET rows == {StatsRow(r, ex) : r \in {x \in cl : x.province = Strip(p)}}
    IN  {q \in Perms(rows) : \A i \in 1..(Len(q) - 1) : q[i].avg >= q[i + 1].avg}

\* one line of the province summary: "{n} ({c}) {stars(a)} ({v})", and its button
SummaryLine(r) ==
    [cid |-> r.cid, name |-> r.name, city |-> r.city, glyphs |-> stars(r.avg), count |-> r.count]

(***************************************************************************)
(* get_experiences_by_clinic and the detail rendering of view_clinic.      *)
(***************************************************************************)
\* every order the query may return its rows in (ORDER BY created_at DESC)
get_experiences_by_clinic(ex, cid) ==
    {q \in Perms({ex[i] : i \in ExperiencesOf(ex, cid)}) :
        \A i \in 1..(Len(q) - 1) : q[i].created_at >= q[i + 1].created_at}

OrDash(v) == IF v = None \/ v = <<>> THEN <<"-">> ELSE v

\* the lines of one experience block
BlockLines(e) ==
    << stars(10 * e.rating),
       e.start_date \o <<"-">> \o (IF e.end_date = None \/ e.end_date = <<>>
                                   THEN T_unknown1 ELSE e.end_date),
       OrDash(e.payment),
       IF e.contract_signed # 0 THEN T_yes ELSE T_no,
       OrDash(e.patient_culture), OrDash(e.patient_count),
       OrDash(e.insurance_status), OrDash(e.environment) >>
    \o (IF e.comment # <<>> THEN <<e.comment>> ELSE <<>>)

\* the characters of "YYYY-MM-DD HH:MM:SS"
TimestampLen == 19
\* the characters of "\n-----\n"
SeparatorLen == 7
\* the flush threshold of the detail rendering
PageLimit == 3800

\* len(blk), blk = "\n".join(lines + [cr]) + "\n-----\n"
BlockLen(e) ==
    LET ls == BlockLines(e)
    IN  SumOver([i \in 1..Len(ls) |-> TextLen(ls[i]) + 1], 1..Len(ls))
        + TimestampLen + SeparatorLen

Block(e) == [exp |-> e.id, lines |-> BlockLines(e), at |-> e.created_at, len |-> BlockLen(e)]

\* len(buf): a buffer is the sequence of the blocks appended to it
BufLen(buf) == SumOver([i \in 1..Len(buf) |-> buf[i].len], 1..Len(buf))

\* the loop of view_clinic over blocks i..Len(blocks), with parts and buf so far
RECURSIVE PaginateFrom(_, _, _, _)
PaginateFrom(blocks, i, parts, buf) ==
    IF i > Len(blocks) THEN Append(parts, buf)
    ELSE IF BufLen(buf) + blocks[i].len > PageLimit
         THEN PaginateFrom(blocks, i + 1, Append(parts, buf), <<blocks[i]>>)
         ELSE PaginateFrom(blocks, i + 1, parts, Append(buf, blocks[i]))

\* the message that opens the detail view: "{name} ({city}, {prov})\n\n"
Header(info) == <<[exp |-> 0, lines |-> <<info.name, info.city, info.province>>, at |-> 0,
                   len |-> TextLen(info.name) + TextLen(info.city) + TextLen(info.province) + 7]>>

\* parts, as view_clinic hands them to bot.send_message one by one
DetailParts(info, exps) ==
    PaginateFrom([i \in 1..Len(exps) |-> Block(exps[i])], 1, <<Header(info)>>, <<>>)

\* bot.send_message raises on an empty text (Telegram: "message text is empty"):
\* the parts delivered are those before the first empty one
RECURSIVE Delivered(_)
Delivered(parts) ==
    IF parts = <<>> \/ Head(parts) = <<>> THEN <<>>
    ELSE <<Head(parts)>> \o Delivered(Tail(parts))

SendFails(parts) == \E i \in 1..Len(parts) : parts[i] = <<>>

(***************************************************************************)
(* State.                                                                  *)
(*   state[u], draft[u]  the FSM state and data MemoryStorage keeps for u  *)
(*   clinics, experiences  the two tables of dental_bot.db                 *)
(*   last  the update handled last: what came in, the reply, the messages  *)
(*         sent with it                                                    *)
(*   callers  the calls of get_or_create_clinic that run statement by      *)
(*         statement on connections of their own (SpecRace)                *)
(***************************************************************************)
VARIABLES state, draft, clinics, experiences, last, callers

vars == <<state, draft, clinics, experiences, last, callers>>

Event(kind, text, data, reply, msgs) ==
    [kind |-> kind, text |-> text, data |-> data, reply |-> reply, msgs |-> msgs]

Callers == 1..MaxCallers

IdleCaller == [pc |-> "idle", args |-> <<>>, row |-> 0, cid |-> 0]

\* the handler's update is recorded; the handlers never touch the callers
Emit(kind, text, data, reply, msgs) ==
    /\ last' = Event(kind, text, data, reply, msgs)
    /\ UNCHANGED callers

Init ==
    /\ state = [u \in Users |-> NoState]
    /\ draft = [u \in Users |-> EmptyDraft]
    /\ clinics = {}
    /\ experiences = <<>>
    /\ last = Event("none", <<>>, 0, "none", <<>>)
    /\ callers = [c \in Callers |-> IdleCaller]

(***************************************************************************)
(* The dispatcher: the first registered handler whose filters pass.        *)
(***************************************************************************)
IsCancel(t) == t = T_cancel_phrase \/ IsCommand(t, Tail(T_cmd_cancel))

AddHandlers ==
    << "add_clinic_name", "add_province", "add_city", "add_start_date", "add_end_date",
       "add_payment", "add_contract", "add_pculture", "add_pcount", "add_ins",
       "add_env", "add_rating", "add_comment" >>

Dispatch(st, t) ==
    IF st = NoState /\ IsCommand(t, Tail(T_cmd_start)) THEN "_start"
    ELSE IF IsCancel(t) THEN "_cancel"
    ELSE IF st = NoState /\ IsCommand(t, Tail(T_cmd_add)) THEN "add_start"
    ELSE IF st \in AddStates THEN AddHandlers[AddIndex(st)]
    ELSE IF st = NoState /\ IsCommand(t, Tail(T_cmd_view)) THEN "view_start"
    ELSE IF st = ViewProvince THEN "view_province"
    ELSE "unhandled"

(***************************************************************************)
(* The texts a user sends in each state.                                   *)
(***************************************************************************)
FlowCommands == {T_cmd_add, T_cmd_view}
CancelInputs == {T_cmd_cancel, T_cancel_phrase}

Inputs(st) ==
    CancelInputs \cup
    CASE st = NoState -> {T_cmd_start, T_cmd_add, T_cmd_view, T_A}
      [] st = "waiting_for_clinic_name" -> {T_A, T_A_padded, T_cmd_add}
      [] st = "waiting_for_province" -> {T_qom, T_qom_padded, T_junk, T_cmd_view}
      [] st = "waiting_for_city" -> {T_X}
      [] st = "waiting_for_start_date" -> {T_date_leap, T_date_noleap, T_cmd_add}
      [] st = "waiting_for_end_date" ->
            {T_date_leap, T_date_noleap, T_unknown1, T_unknown2, T_cmd_view}
      [] st = "waiting_for_contract" -> {T_yes, T_junk, T_cmd_add}
      [] st = "waiting_for_rating" -> {T_5, T_5_padded, T_0, T_6, T_cmd_view}
      [] st = "waiting_for_comment" -> {T_skip, T_long}
      [] st = ViewProvince -> {T_qom, T_yazd, T_junk, T_cmd_add}
      [] st = ViewSelection -> {T_A, T_cmd_view}
      [] OTHER -> {T_ok}

\* the clinic ids a callback "v_{cid}" may carry
CallbackIds == 0..(Cardinality(clinics) + 1)

(***************************************************************************)
(* Steps shared by the handlers.                                           *)
(***************************************************************************)
\* reply only
ReplyOnly(t, reply) ==
    /\ Emit("message", t, 0, reply, <<>>)
    /\ UNCHANGED <<state, draft, clinics, experiences>>

\* async with s.proxy() as d: d[field]=value;  <next state>.set();  m.reply(...)
StoreAndAdvance(u, t, field, value, next, reply) ==
    /\ draft' = [draft EXCEPT ![u] = Put(@, field, value)]
    /\ state' = [state EXCEPT ![u] = next]
    /\ Emit("message", t, 0, reply, <<>>)
    /\ UNCHANGED <<clinics, experiences>>

\* reset_state() in place of finish(): the data stays
Finish_keeping_data(u) ==
    /\ state' = [state EXCEPT ![u] = NoState]
    /\ UNCHANGED draft

\* s.finish(): the state and the data are both reset
Finish(u) ==
    /\ state' = [state EXCEPT ![u] = NoState]
    /\ draft' = [draft EXCEPT ![u] = EmptyDraft]

(***************************************************************************)
(* The handlers.                                                           *)
(***************************************************************************)
_start ==
    \E u \in Users :
        /\ state[u] = NoState
        /\ \E t \in Inputs(state[u]) :
               /\ Dispatch(state[u], t) = "_start"
               /\ ReplyOnly(t, "help")

_cancel ==
    \E u \in Users : \E t \in Inputs(state[u]) :
        /\ Dispatch(state[u], t) = "_cancel"
        /\ IF state[u] # NoState
           THEN /\ Finish(u)
                /\ Emit("message", t, 0, "cancelled", <<>>)
                /\ UNCHANGED <<clinics, experiences>>
           ELSE ReplyOnly(t, "nothing_to_cancel")

add_start ==
    \E u \in Users :
        /\ state[u] = NoState
        /\ \E t \in Inputs(state[u]) :
               /\ Dispatch(state[u], t) = "add_start"
               \* a flow is explored only while the store has room for its row
               /\ Len(experiences) < MaxExperiences
               /\ state' = [state EXCEPT ![u] = "waiting_for_clinic_name"]
               /\ Emit("message", t, 0, "ask_clinic_name", <<>>)
               /\ UNCHANGED <<draft, clinics, experiences>>

add_clinic_name ==
    \E u \in Users :
        /\ state[u] = "waiting_for_clinic_name"
        /\ \E t \in Inputs(state[u]) :
               /\ Dispatch(state[u], t) = "add_clinic_name"
               /\ StoreAndAdvance(u, t, "clinic_name", Strip(t), "waiting_for_province", "ask_province")

province_ok(t) == Strip(t) \in PROVINCES

add_province ==
    \E u \in Users :
        /\ state[u] = "waiting_for_province"
        /\ \E t \in Inputs(state[u]) :
               /\ Dispatch(state[u], t) = "add_province"
               /\ IF ~province_ok(t)
                  THEN ReplyOnly(t, "invalid_province")
                  ELSE StoreAndAdvance(u, t, "province", Strip(t), "waiting_for_city", "ask_city")

\* add_city moving on to the state after the next one
add_city_skipping ==
    \E u \in Users :
        /\ state[u] = "waiting_for_city"
        /\ \E t \in Inputs(state[u]) :
               /\ Dispatch(state[u], t) = "add_city"
               /\ StoreAndAdvance(u, t, "city", Strip(t), "waiting_for_end_date", "ask_start_date")

\* add_city resolving the clinic as soon as its triple is known
add_city_creating_clinic ==
    \E u \in Users :
        /\ state[u] = "waiting_for_city"
        /\ \E t \in Inputs(state[u]) :
               /\ Dispatch(state[u], t) = "add_city"
               /\ draft' = [draft EXCEPT ![u] = Put(@, "city", Strip(t))]
               /\ state' = [state EXCEPT ![u] = "waiting_for_start_date"]
               /\ clinics' = get_or_create_clinic(clinics, draft[u]["clinic_name"],
                                                  draft[u]["province"], t).clinics
               /\ Emit("message", t, 0, "ask_start_date", <<>>)
               /\ UNCHANGED experiences

add_city ==
    \E u \in Users :
        /\ state[u] = "waiting_for_city"
        /\ \E t \in Inputs(state[u]) :
               /\ Dispatch(state[u], t) = "add_city"
               /\ StoreAndAdvance(u, t, "city", Strip(t), "waiting_for_start_date", "ask_start_date")

start_date_ok(t) == valid_date(Strip(t))

add_start_date ==
    \E u \in Users :
        /\ state[u] = "waiting_for_start_date"
        /\ \E t \in Inputs(state[u]) :
               /\ Dispatch(state[u], t) = "add_start_date"
               /\ IF ~start_date_ok(t)
                  THEN ReplyOnly(t, "bad_format")
                  ELSE StoreAndAdvance(u, t, "start_date", Strip(t), "waiting_for_end_date", "ask_end_date")

end_date_ok(t) == Lower(Strip(t)) \in UNKNOWN_TOKENS \/ valid_date(Strip(t))

\* the end date stored as typed, the unknown tokens included
end_date_value_keeping_token(t) == Strip(t)

end_date_value(t) == IF Lower(Strip(t)) \in UNKNOWN_TOKENS THEN None ELSE Strip(t)

add_end_date ==
    \E u \in Users :
        /\ state[u] = "waiting_for_end_date"
        /\ \E t \in Inputs(state[u]) :
               /\ Dispatch(state[u], t) = "add_end_date"
               /\ IF ~end_date_ok(t)
                  THEN ReplyOnly(t, "bad_format")
                  ELSE StoreAndAdvance(u, t, "end_date", end_date_value(t), "waiting_for_payment", "ask_payment")

add_payment ==
    \E u \in Users :
        /\ state[u] = "waiting_for_payment"
        /\ \E t \in Inputs(state[u]) :
               /\ Dispatch(state[u], t) = "add_payment"
               /\ StoreAndAdvance(u, t, "payment", Strip(t), "waiting_for_contract", "ask_contract")

contract_ok(t) == Strip(t) \in CONTRACT_OPTIONS

add_contract ==
    \E u \in Users :
        /\ state[u] = "waiting_for_contract"
        /\ \E t \in Inputs(state[u]) :
               /\ Dispatch(state[u], t) = "add_contract"
               /\ IF ~contract_ok(t)
                  THEN ReplyOnly(t, "yes_or_no")
                  ELSE StoreAndAdvance(u, t, "contract_signed", IF Strip(t) = T_yes THEN 1 ELSE 0,
                                       "waiting_for_patient_culture", "ask_patient_culture")

add_pculture ==
    \E u \in Users :
        /\ state[u] = "waiting_for_patient_culture"
        /\ \E t \in Inputs(state[u]) :
               /\ Dispatch(state[u], t) = "add_pculture"
               /\ StoreAndAdvance(u, t, "patient_culture", Strip(t), "waiting_for_patient_count", "ask_patient_count")

add_pcount ==
    \E u \in Users :
        /\ state[u] = "waiting_for_patient_count"
        /\ \E t \in Inputs(state[u]) :
               /\ Dispatch(state[u], t) = "add_pcount"
               /\ StoreAndAdvance(u, t, "patient_count", Strip(t), "waiting_for_insurance_status", "ask_insurance_status")

add_ins ==
    \E u \in Users :
        /\ state[u] = "waiting_for_insurance_status"
        /\ \E t \in Inputs(state[u]) :
               /\ Dispatch(state[u], t) = "add_ins"
               /\ StoreAndAdvance(u, t, "insurance_status", Strip(t), "waiting_for_environment", "ask_environment")

add_env ==
    \E u \in Users :
        /\ state[u] = "waiting_for_environment"
        /\ \E t \in Inputs(state[u]) :
               /\ Dispatch(state[u], t) = "add_env"
               /\ StoreAndAdvance(u, t, "environment", Strip(t), "waiting_for_rating", "ask_rating")

\* the range check written 0<=r<=5
rating_ok_from_zero(t) == IsInt(Strip(t)) /\ IntVal(Strip(t)) >= 0 /\ IntVal(Strip(t)) <= 5

\* the rating taken without the range check
rating_ok_any_int(t) == IsInt(Strip(t))

\* r=int(m.text.strip()); assert 1<=r<=5
rating_ok(t) == IsInt(Strip(t)) /\ IntVal(Strip(t)) >= 1 /\ IntVal(Strip(t)) <= 5

add_rating ==
    \E u \in Users :
        /\ state[u] = "waiting_for_rating"
        /\ \E t \in Inputs(state[u]) :
               /\ Dispatch(state[u], t) = "add_rating"
               /\ IF ~rating_ok(t)
                  THEN ReplyOnly(t, "number_1_to_5")
                  ELSE StoreAndAdvance(u, t, "rating", IntVal(Strip(t)), "waiting_for_comment", "ask_comment")

comment_value(t) == IF Lower(Strip(t)) = T_skip THEN <<>> ELSE Strip(t)

\* the draft as add_comment hands it to save_experience, and the clinics table
\* get_or_create_clinic leaves
CommitDraft(u, d, cl, t) ==
    LET goc == get_or_create_clinic(cl, d["clinic_name"], d["province"], d["city"])
    IN  [ clinics |-> goc.clinics,
          draft |-> Put(Put(Put(d, "comment", comment_value(t)), "user_id", u),
                        "clinic_id", goc.cid) ]

\* add_comment without the s.finish() at its end
add_comment_without_finish ==
    \E u \in Users :
        /\ state[u] = "waiting_for_comment"
        /\ \E t \in Inputs(state[u]) :
               /\ Dispatch(state[u], t) = "add_comment"
               /\ Len(experiences) < MaxExperiences
               /\ LET c == CommitDraft(u, draft[u], clinics, t)
                  IN  /\ clinics' = c.clinics
                      /\ \E at \in Timestamps(experiences) :
                            experiences' = save_experience(experiences, c.draft, at)
                      /\ draft' = [draft EXCEPT ![u] = c.draft]
                      /\ Emit("message", t, 0, "saved", <<>>)
                      /\ UNCHANGED state

add_comment ==
    \E u \in Users :
        /\ state[u] = "waiting_for_comment"
        /\ \E t \in Inputs(state[u]) :
               /\ Dispatch(state[u], t) = "add_comment"
               /\ Len(experiences) < MaxExperiences
               /\ LET c == CommitDraft(u, draft[u], clinics, t)
                  IN  /\ clinics' = c.clinics
                      /\ IF ForeignKeyOk(c.clinics, c.draft)
                         THEN /\ \E at \in Timestamps(experiences) :
                                    experiences' = save_experience(experiences, c.draft, at)
                              /\ Finish(u)
                              /\ Emit("message", t, 0, "saved", <<>>)
                         ELSE \* sqlite3.IntegrityError leaves the handler: the proxy is not
                              \* saved, nothing is replied, finish() is not reached
                              /\ Emit("message", t, 0, "raised", <<>>)
                              /\ UNCHANGED <<state, draft, experiences>>

view_start ==
    \E u \in Users :
        /\ state[u] = NoState
        /\ \E t \in Inputs(state[u]) :
               /\ Dispatch(state[u], t) = "view_start"
               /\ state' = [state EXCEPT ![u] = ViewProvince]
               /\ Emit("message", t, 0, "ask_province", <<>>)
               /\ UNCHANGED <<draft, clinics, experiences>>

view_province ==
    \E u \in Users :
        /\ state[u] = ViewProvince
        /\ \E t \in Inputs(state[u]) :
               /\ Dispatch(state[u], t) = "view_province"
               /\ IF ~province_ok(t)
                  THEN ReplyOnly(t, "invalid")
                  ELSE \E stats \in clinic_stats_by_province(clinics, experiences, Strip(t)) :
                          IF stats = <<>>
                          THEN /\ Finish(u)
                               /\ Emit("message", t, 0, "no_experiences", <<>>)
                               /\ UNCHANGED <<clinics, experiences>>
                          ELSE /\ draft' = [draft EXCEPT ![u] = Put(@, "province", Strip(t))]
                               /\ state' = [state EXCEPT ![u] = ViewSelection]
                               /\ Emit("message", t, 0, "summary",
                                                [i \in 1..Len(stats) |-> SummaryLine(stats[i])])
                               /\ UNCHANGED <<clinics, experiences>>

\* view_clinic ending the flow when the clinic is not found
view_clinic_finishing_on_miss ==
    \E u \in Users, cid \in CallbackIds :
        /\ state[u] = ViewSelection
        /\ LET info == get_clinic_by_id(clinics, cid)
           IN  IF info = {}
               THEN /\ Emit("callback", <<>>, cid, "not_found", <<>>)
                    /\ Finish(u)
                    /\ UNCHANGED <<clinics, experiences>>
               ELSE \E exps \in get_experiences_by_clinic(experiences, cid) :
                       LET parts == DetailParts(CHOOSE r \in info : TRUE, exps)
                       IN  IF SendFails(parts)
                           THEN /\ Emit("callback", <<>>, cid, "raised", Delivered(parts))
                                /\ UNCHANGED <<state, draft, clinics, experiences>>
                           ELSE /\ Finish(u)
                                /\ Emit("callback", <<>>, cid, "answered", parts)
                                /\ UNCHANGED <<clinics, experiences>>

view_clinic ==
    \E u \in Users, cid \in CallbackIds :
        /\ state[u] = ViewSelection
        /\ LET info == get_clinic_by_id(clinics, cid)
           IN  IF info = {}
               THEN /\ Emit("callback", <<>>, cid, "not_found", <<>>)
                    /\ UNCHANGED <<state, draft, clinics, experiences>>
               ELSE \E exps \in get_experiences_by_clinic(experiences, cid) :
                       LET parts == DetailParts(CHOOSE r \in info : TRUE, exps)
                       IN  IF SendFails(parts)
                           THEN \* bot.send_message raises: call.answer() and
                                \* s.finish() are not reached
                                /\ Emit("callback", <<>>, cid, "raised", Delivered(parts))
                                /\ UNCHANGED <<state, draft, clinics, experiences>>
                           ELSE /\ Finish(u)
                                /\ Emit("callback", <<>>, cid, "answered", parts)
                                /\ UNCHANGED <<clinics, experiences>>

\* an update no handler's filters accept changes nothing and gets no reply
unhandled ==
    \/ \E u \in Users : \E t \in Inputs(state[u]) :
          /\ Dispatch(state[u], t) = "unhandled"
          /\ Emit("message", t, 0, "none", <<>>)
          /\ UNCHANGED <<state, draft, clinics, experiences>>
    \/ \E u \in Users, cid \in CallbackIds :
          /\ state[u] # ViewSelection
          /\ Emit("callback", <<>>, cid, "none", <<>>)
          /\ UNCHANGED <<state, draft, clinics, experiences>>

Next ==
    \/ _start \/ _cancel \/ add_start \/ add_clinic_name \/ add_province \/ add_city
    \/ add_start_date \/ add_end_date \/ add_payment \/ add_contract \/ add_pculture
    \/ add_pcount \/ add_ins \/ add_env \/ add_rating \/ add_comment
    \/ view_start \/ view_province \/ view_clinic \/ unhandled

Spec == Init /\ [][Next]_vars

(***************************************************************************)
(* get_or_create_clinic statement by statement.  Every call opens its own  *)
(* connection in autocommit mode (isolation_level=None), so the SELECT and *)
(* the INSERT of one call are two transactions, and the statements of      *)
(* calls that run at the same time on one database file interleave.        *)
(***************************************************************************)
RaceNames == {T_A, T_A_padded, T_cmd_add}

\* cur.execute("SELECT ..."); row=cur.fetchone()
RaceSelect ==
    \E c \in Callers, n \in RaceNames :
        /\ callers[c].pc = "idle"
        /\ LET args == <<n, T_qom, T_X>>
               ids == SelectClinicIds(clinics, StripTriple(args[1], args[2], args[3]))
           IN  callers' = [callers EXCEPT ![c] =
                   [pc |-> "selected", args |-> args,
                    row |-> IF ids = {} THEN 0 ELSE CHOOSE i \in ids : TRUE, cid |-> 0]]
        /\ UNCHANGED <<state, draft, clinics, experiences, last>>

\* if row: cid=row[0]  else: INSERT ...; cid=cur.lastrowid;  return cid
RaceInsert ==
    \E c \in Callers :
        /\ callers[c].pc = "selected"
        /\ LET a == callers[c].args
               ins == InsertClinic(clinics, StripTriple(a[1], a[2], a[3]))
           IN  IF callers[c].row # 0
               THEN /\ callers' = [callers EXCEPT ![c].pc = "returned", ![c].cid = callers[c].row]
                    /\ UNCHANGED clinics
               ELSE /\ callers' = [callers EXCEPT ![c].pc = "returned", ![c].cid = ins.lastrowid]
                    /\ clinics' = ins.clinics
        /\ UNCHANGED <<state, draft, experiences, last>>

\* the caller is free for its next call
RaceDone ==
    \E c \in Callers :
        /\ callers[c].pc = "returned"
        /\ callers' = [callers EXCEPT ![c] = IdleCaller]
        /\ UNCHANGED <<state, draft, clinics, experiences, last>>

NextRace == RaceSelect \/ RaceInsert \/ RaceDone

SpecRace == Init /\ [][NextRace]_vars

(***************************************************************************)
(* The add flow with a store that may refuse a statement.  A call of       *)
(* sqlite3 raises when the database file is locked by another connection   *)
(* or cannot be written; add_comment has no handler for the exception, so  *)
(* it leaves the coroutine: the proxy is not saved, nothing is replied and *)
(* finish() is not reached.  The clinic row of a statement that ran before *)
(* the failing one stays, every statement being its own transaction.       *)
(***************************************************************************)
add_comment_store_error ==
    \E u \in Users :
        /\ state[u] = "waiting_for_comment"
        /\ \E t \in Inputs(state[u]) :
               /\ Dispatch(state[u], t) = "add_comment"
               /\ \/ \* get_or_create_clinic raises
                     /\ Emit("message", t, 0, "raised", <<>>)
                     /\ UNCHANGED <<state, draft, clinics, experiences>>
                  \/ \* save_experience raises
                     /\ clinics' = CommitDraft(u, draft[u], clinics, t).clinics
                     /\ Emit("message", t, 0, "raised", <<>>)
                     /\ UNCHANGED <<state, draft, experiences>>

\* the handlers of the add flow
NextAdd ==
    \/ _cancel \/ add_start \/ add_clinic_name \/ add_province \/ add_city
    \/ add_start_date \/ add_end_date \/ add_payment \/ add_contract \/ add_pculture
    \/ add_pcount \/ add_ins \/ add_env \/ add_rating \/ add_comment

NextFaults == NextAdd \/ add_comment_store_error

SpecFaults == Init /\ [][NextFaults]_vars

(***************************************************************************)
(* stars and _valid_date on their own: a call is drawn with its argument,  *)
(* and the step runs the function and records what it returns.            *)
(***************************************************************************)
\* COALESCE(ROUND(AVG(rating),1),0) of ratings 1..5, in tenths: 0.0 to 5.0
Averages == 0..50

DateYears == { <<"2", "0", "2", "4">>, <<"2", "0", "2", "3">>, <<"1", "9", "0", "0">>,
               <<"2", "0", "0", "0">>, <<"2", "4">> }
DateMonths == { <<"0", "2">>, <<"2">>, <<"1", "2">>, <<"1", "3">>, <<"0", "0">>, <<"0", "4">> }
DateDays == { <<"2", "9">>, <<"9">>, <<"0", "9">>, <<"3", "1">>, <<"3", "0">>, <<"0", "0">>,
              <<SP, "9">> }
DateSeparators == {"-", "/"}

\* the texts _valid_date is called on
DateTexts ==
    {y \o <<sep>> \o m \o <<sep>> \o d :
        y \in DateYears, m \in DateMonths, d \in DateDays, sep \in DateSeparators}
    \cup {<<>>, T_junk, T_unknown1, T_date_leap \o <<SP>>}

Call(fn, text, arg) == Event("call", text, arg, fn, <<>>)

InitFunctions ==
    /\ state = [u \in Users |-> NoState]
    /\ draft = [u \in Users |-> EmptyDraft]
    /\ clinics = {}
    /\ experiences = <<>>
    /\ callers = [c \in Callers |-> IdleCaller]
    /\ last \in {Call("stars", <<>>, a) : a \in Averages}
               \cup {Call("_valid_date", t, 0) : t \in DateTexts}

call_stars ==
    /\ last.kind = "call" /\ last.reply = "stars"
    /\ last' = Event("return", <<>>, last.data, "stars", stars(last.data))
    /\ UNCHANGED <<state, draft, clinics, experiences, callers>>

call_valid_date ==
    /\ last.kind = "call" /\ last.reply = "_valid_date"
    /\ last' = Event("return", last.text, IF valid_date(last.text) THEN 1 ELSE 0,
                     "_valid_date", <<>>)
    /\ UNCHANGED <<state, draft, clinics, experiences, callers>>

NextFunctions == call_stars \/ call_valid_date

SpecFunctions == InitFunctions /\ [][NextFunctions]_vars

(***************************************************************************)
(* The view flow over the store contents earlier sessions may have left.   *)
(***************************************************************************)
SeqsUpTo(S, n) == UNION {[1..k -> S] : k \in 0..n}

\* the draft of a complete add flow, as save_experience gets it
SampleDraft(cid, rating, comment) ==
    [ clinic_id |-> cid, user_id |-> 101, start_date |-> T_date_leap, end_date |-> None,
      payment |-> T_ok, contract_signed |-> 1, patient_culture |-> T_ok,
      patient_count |-> T_ok, insurance_status |-> T_ok, environment |-> T_ok,
      rating |-> rating, comment |-> comment ]

\* created_at of the i-th row: the first two rows fall into one second
SampleStamp(i) == IF i = 1 THEN 1 ELSE i - 1

\* the table save_experience leaves after the drafts ds, one call each
StoredRows(ds) == [i \in 1..Len(ds) |-> ExperienceRow(ds[i], i, SampleStamp(i))]

SampleClinic(id, n, p) == [id |-> id, name |-> n, province |-> p, city |-> T_X]

\* the comments of the rows the detail view is rendered from
PageComments == {<<>>, T_mid, T_long}

\* one clinic, its experiences differing in the length of the comment; the
\* session has selected the clinic's province
InitPages ==
    /\ state = [u \in Users |-> ViewSelection]
    /\ draft = [u \in Users |-> Put(EmptyDraft, "province", T_qom)]
    /\ clinics = {SampleClinic(1, T_A, T_qom)}
    /\ experiences \in {StoredRows([i \in 1..Len(cs) |-> SampleDraft(1, 5, cs[i])]) :
                            cs \in SeqsUpTo(PageComments, MaxRows)}
    /\ last = Event("none", <<>>, 0, "none", <<>>)
    /\ callers = [c \in Callers |-> IdleCaller]

NextPages == view_clinic

SpecPages == InitPages /\ [][NextPages]_vars

\* the clinics tables the summary is computed from (ids as AUTOINCREMENT gives them)
StatsTables ==
    { {},
      {SampleClinic(1, T_A, T_qom)},
      {SampleClinic(1, T_A, T_qom), SampleClinic(2, T_X, T_qom)},
      {SampleClinic(1, T_A, T_qom), SampleClinic(2, T_X, T_qom), SampleClinic(3, T_A, T_yazd)} }

StatsRatings == {1, 2, 5}

\* up to MaxRows experiences of the clinics of a table, the session waiting
\* for the province
InitStats ==
    /\ state = [u \in Users |-> ViewProvince]
    /\ draft = [u \in Users |-> EmptyDraft]
    /\ clinics \in StatsTables
    /\ experiences \in
          {StoredRows([i \in 1..Len(rs) |-> SampleDraft(rs[i][1], rs[i][2], <<>>)]) :
              rs \in SeqsUpTo({r.id : r \in clinics} \X StatsRatings, MaxRows)}
    /\ last = Event("none", <<>>, 0, "none", <<>>)
    /\ callers = [c \in Callers |-> IdleCaller]

NextStats == view_province

SpecStats == InitStats /\ [][NextStats]_vars

(***************************************************************************)
(* Properties.  In an action formula, last' is the update the step handles *)
(* and the unprimed variables are the session and the store it finds.      *)
(***************************************************************************)
IsMessage(e) == e.kind = "message"
IsCallback(e) == e.kind = "callback"
IsFlowCommand(t) == IsCommand(t, Tail(T_cmd_add)) \/ IsCommand(t, Tail(T_cmd_view))
StoreUnchanged == clinics' = clinics /\ experiences' = experiences
FieldsBefore(i) == {AddFields[j] : j \in 1..(i - 1)}

\* C1 (draft side): in the i-th add state the draft holds exactly the fields of
\* the i-1 states before it, and an idle session holds none.
C1_DraftMatchesState ==
    \A u \in Users :
        /\ state[u] = NoState => draft[u] = EmptyDraft
        /\ state[u] \in AddStates => DOMAIN draft[u] = FieldsBefore(AddIndex(state[u]))

\* C1 (step side): an add state is entered only from the state just before it
\* (the first one only from idle); a message that is not a cancel and passes
\* the state's rule moves the session to the next state and adds that state's
\* field; an experience row is written only from waiting_for_comment, with the
\* twelve earlier fields in the draft.
C1_Step ==
    \A u \in Users :
        LET s == state[u]
            n == state'[u]
            t == last'.text
        IN  /\ (n \in AddStates /\ n # s) =>
                   IF AddIndex(n) = 1 THEN s = NoState
                   ELSE s \in AddStates /\ AddIndex(n) = AddIndex(s) + 1
            /\ (s \in AddStates /\ n # s) => (n = NoState \/ n \in AddStates)
            /\ (s \in AddStates /\ AddIndex(s) < 13 /\ IsMessage(last') /\ ~IsCancel(t)
                  /\ (s = "waiting_for_province" => Strip(t) \in PROVINCES)
                  /\ (s = "waiting_for_start_date" => valid_date(Strip(t)))
                  /\ (s = "waiting_for_end_date" =>
                         (valid_date(Strip(t)) \/ Lower(Strip(t)) \in UNKNOWN_TOKENS))
                  /\ (s = "waiting_for_contract" => Strip(t) \in CONTRACT_OPTIONS)
                  /\ (s = "waiting_for_rating" => (IsInt(Strip(t)) /\ IntVal(Strip(t)) \in 1..5)))
               => /\ n = AddOrder[AddIndex(s) + 1]
                  /\ DOMAIN draft'[u] = DOMAIN draft[u] \cup {AddFields[AddIndex(s)]}
                  /\ \A k \in DOMAIN draft[u] : draft'[u][k] = draft[u][k]
            /\ experiences' # experiences =>
                  /\ \E v \in Users : /\ state[v] = "waiting_for_comment"
                                      /\ DOMAIN draft[v] = FieldsBefore(13)
                                      /\ state'[v] = NoState

\* C1: the add flow runs through its thirteen states in the fixed order, one
\* state per accepted input, and commits only from the last one.
C1_AddFlowOrder == []C1_DraftMatchesState /\ [][C1_Step]_vars

\* C1 witness: a flow has run from add_experience to the commit.
C1_Witness ==
    \E u \in Users : state[u] = NoState /\ last.reply = "saved" /\ Len(experiences) >= 1

\* C2: a flow command that arrives in a non-idle state changes neither the
\* state nor the draft of the session.
C2_FlowCommandRejected ==
    [][\A u \in Users :
          (state[u] # NoState /\ IsMessage(last') /\ IsFlowCommand(last'.text))
          => (state'[u] = state[u] /\ draft'[u] = draft[u])]_vars

\* the rule of a validated state fails on text t
C3_Fails(st, t) ==
    CASE st \in {"waiting_for_province", ViewProvince} -> Strip(t) \notin PROVINCES
      [] st = "waiting_for_start_date" -> ~valid_date(Strip(t))
      [] st = "waiting_for_end_date" ->
            ~valid_date(Strip(t)) /\ Lower(Strip(t)) \notin UNKNOWN_TOKENS
      [] st = "waiting_for_contract" -> Strip(t) \notin CONTRACT_OPTIONS
      [] st = "waiting_for_rating" -> ~(IsInt(Strip(t)) /\ IntVal(Strip(t)) \in 1..5)
      [] OTHER -> FALSE

\* C3: in a validated state a message that is not a cancel and fails the
\* state's rule leaves the state, the draft and the store as they are, and is
\* answered with a reply and no other message.
C3_InvalidInputKeepsSession ==
    [][\A u \in Users :
          (IsMessage(last') /\ ~IsCancel(last'.text) /\ C3_Fails(state[u], last'.text))
          => /\ state'[u] = state[u]
             /\ draft'[u] = draft[u]
             /\ StoreUnchanged
             /\ last'.reply \in {"invalid_province", "bad_format", "yes_or_no",
                                 "number_1_to_5", "invalid"}
             /\ last'.msgs = <<>>]_vars

\* C3 witness: a rating outside 1..5 has been refused in waiting_for_rating.
C3_Witness ==
    \E u \in Users :
        /\ state[u] = "waiting_for_rating"
        /\ last.reply = "number_1_to_5"
        /\ last.text = T_6

\* C4 (step side): the cancel command or phrase ends any flow with an empty
\* draft and leaves an idle session idle; the store is not touched.
C4_Step ==
    \A u \in Users :
        (IsMessage(last') /\ (last'.text = T_cancel_phrase \/ last'.text = T_cmd_cancel))
        => /\ state'[u] = NoState
           /\ draft'[u] = EmptyDraft
           /\ StoreUnchanged
           /\ last'.reply = IF state[u] = NoState THEN "nothing_to_cancel" ELSE "cancelled"

\* C4: cancel is handled in every state of both flows, and handled as cancel.
C4_CancelFromAnyState ==
    /\ [](\A u \in Users : state[u] # NoState => ENABLED _cancel)
    /\ [][C4_Step]_vars

\* C4 witness: the cancel phrase has ended a flow.
C4_Witness ==
    \E u \in Users :
        state[u] = NoState /\ last.reply = "cancelled" /\ last.text = T_cancel_phrase

\* C5: the two tables change only in the step that handles a message in
\* waiting_for_comment, the commit.
C5_StoreChangesOnlyAtCommit ==
    [][(clinics' # clinics \/ experiences' # experiences)
       => /\ \E u \in Users : state[u] = "waiting_for_comment" /\ state'[u] = NoState
          /\ IsMessage(last') /\ ~IsCancel(last'.text)
          /\ last'.reply = "saved"]_vars

\* C5 witness: a flow has been cancelled with the store holding one clinic
\* and one experience.
C5_Witness ==
    /\ last.reply = "cancelled"
    /\ Cardinality(clinics) = 1
    /\ Len(experiences) = 1

\* the clinics whose row is the trimmed triple of draft d
C6_ClinicsOfDraft(cl, d) ==
    {r \in cl : /\ r.name = Strip(d["clinic_name"])
                /\ r.province = Strip(d["province"])
                /\ r.city = Strip(d["city"])}

\* C6: the step that ends a complete add flow adds exactly one experience row
\* (the rows before it stay), adds no clinic row when the trimmed triple is in
\* the table and one otherwise, and the new row's clinic_id is the id of the
\* clinic with that triple.
C6_CommitAddsOneRow ==
    [][\A u \in Users :
          (state[u] = "waiting_for_comment" /\ IsMessage(last') /\ ~IsCancel(last'.text))
          => /\ Len(experiences') = Len(experiences) + 1
             /\ SubSeq(experiences', 1, Len(experiences)) = experiences
             /\ clinics \subseteq clinics'
             /\ Cardinality(clinics') = Cardinality(clinics)
                  + (IF C6_ClinicsOfDraft(clinics, draft[u]) # {} THEN 0 ELSE 1)
             /\ \E r \in C6_ClinicsOfDraft(clinics', draft[u]) :
                   experiences'[Len(experiences')].clinic_id = r.id]_vars

\* C6 witness: a second flow for the same clinic has been committed.
C6_Witness ==
    last.reply = "saved" /\ Len(experiences) = 2 /\ Cardinality(clinics) = 1

\* the arguments get_or_create_clinic is tried on
C7_Names == {T_A, T_A_padded, T_X, T_cmd_add}
C7_Provinces == {T_qom, T_qom_padded}
C7_Cities == {T_X, <<"X", SP>>}

\* C7: on every table the program reaches, a call of get_or_create_clinic
\* followed by a second call with the same arguments, or with arguments that
\* differ from them in outer whitespace only, returns the same id of a row
\* and leaves exactly one row for the trimmed triple; no table holds two rows
\* with one triple.
C7_GetOrCreateIdempotent ==
    /\ \A r1, r2 \in clinics :
          <<r1.name, r1.province, r1.city>> = <<r2.name, r2.province, r2.city>> => r1 = r2
    /\ \A n \in C7_Names, p \in C7_Provinces, c \in C7_Cities :
          LET first == get_or_create_clinic(clinics, n, p, c)
              again == get_or_create_clinic(first.clinics, n, p, c)
              trimmed == get_or_create_clinic(first.clinics, Strip(n), Strip(p), Strip(c))
              rows == {r \in again.clinics :
                          r.name = Strip(n) /\ r.province = Strip(p) /\ r.city = Strip(c)}
          IN  /\ again.cid = first.cid
              /\ trimmed.cid = first.cid
              /\ again.clinics = first.clinics
              /\ trimmed.clinics = first.clinics
              /\ Cardinality(rows) = 1
              /\ \A r \in rows : r.id = first.cid

\* C7 witness: two flows have resolved the same triple to one clinic row.
C7_Witness ==
    /\ Len(experiences) = 2
    /\ experiences[1].clinic_id = experiences[2].clinic_id
    /\ \E r \in clinics : r.id = experiences[2].clinic_id
    /\ Cardinality(clinics) = 1

\* C8: a call that has returned holds the id of the one row of its triple.
C8_RacingCallersGetTheRow ==
    \A c \in Callers :
        callers[c].pc = "returned" =>
            LET a == callers[c].args
                rows == {r \in clinics : <<r.name, r.province, r.city>>
                                            = <<Strip(a[1]), Strip(a[2]), Strip(a[3])>>}
            IN  Cardinality(rows) = 1 /\ \A r \in rows : r.id = callers[c].cid

\* C9: view_experiences from idle enters the province state; a valid province
\* with a clinic moves on to the selection; the selection of an existing clinic
\* delivers the clinic's messages, all of them, and ends the flow with an
\* empty draft.
C9_ViewFlowRuns ==
    [][\A u \in Users :
          /\ (state[u] = NoState /\ IsMessage(last') /\ IsCommand(last'.text, Tail(T_cmd_view)))
             => state'[u] = ViewProvince
          /\ (state[u] = ViewProvince /\ IsMessage(last') /\ ~IsCancel(last'.text)
                /\ Strip(last'.text) \in PROVINCES
                /\ \E r \in clinics : r.province = Strip(last'.text))
             => state'[u] = ViewSelection
          /\ (state[u] = ViewSelection /\ IsCallback(last')
                /\ \E r \in clinics : r.id = last'.data)
             => /\ state'[u] = NoState
                /\ draft'[u] = EmptyDraft
                /\ last'.reply = "answered"
                /\ Len(last'.msgs) >= 2]_vars

\* C10: the selection of a clinic id that no row has is answered "not found":
\* nothing is delivered, the store, the state and the draft stay.
C10_UnknownClinicKeepsSelection ==
    [][\A u \in Users :
          (state[u] = ViewSelection /\ IsCallback(last')
             /\ ~\E r \in clinics : r.id = last'.data)
          => /\ last'.reply = "not_found"
             /\ last'.msgs = <<>>
             /\ StoreUnchanged
             /\ state'[u] = ViewSelection
             /\ draft'[u] = draft[u]]_vars

\* C10 witness: a selection has been answered "not found" in the selection state.
C10_Witness ==
    \E u \in Users :
        /\ state[u] = ViewSelection
        /\ last.reply = "not_found"
        /\ "province" \in DOMAIN draft[u]

\* the blocks of a run of messages, in the order they are read
RECURSIVE Flatten(_)
Flatten(msgs) == IF msgs = <<>> THEN <<>> ELSE Head(msgs) \o Flatten(Tail(msgs))

\* view_clinic has run for a clinic the table holds
Rendered == IsCallback(last) /\ last.reply \in {"answered", "raised"}

\* C11: after the selection of a clinic, the first delivered message is the
\* clinic's header alone, and the messages after it, read in order, hold every
\* experience block of the clinic exactly once, each block whole and as the
\* row gives it, newest first.
C11_BlocksDeliveredInOrder ==
    Rendered =>
        LET info == CHOOSE r \in clinics : r.id = last.data
            rows == ExperiencesOf(experiences, last.data)
        IN  /\ last.msgs # <<>>
            /\ Head(last.msgs) = Header(info)
            /\ LET bs == Flatten(Tail(last.msgs))
               IN  /\ Len(bs) = Cardinality(rows)
                   /\ {bs[i].exp : i \in 1..Len(bs)} = rows
                   /\ \A i \in 1..Len(bs) : bs[i] = Block(experiences[bs[i].exp])
                   /\ \A i \in 1..(Len(bs) - 1) : bs[i].at >= bs[i + 1].at

\* len of the blocks of a clinic's experiences, taken together
BlocksTotal(cid) ==
    SumOver([i \in 1..Len(experiences) |-> BlockLen(experiences[i])],
            ExperiencesOf(experiences, cid))

\* C12: after the selection of a clinic, every delivered message after the
\* header is at most 3800 characters long or is one single block longer than
\* that; and when the clinic's blocks together exceed 3800 characters, more
\* than one message is delivered (the header counted).
C12_PagesWithinLimit ==
    Rendered =>
        /\ \A i \in 2..Len(last.msgs) :
              \/ BufLen(last.msgs[i]) <= PageLimit
              \/ Len(last.msgs[i]) = 1 /\ last.msgs[i][1].len > PageLimit
        /\ BlocksTotal(last.data) > PageLimit => Len(last.msgs) >= 2

\* stars has returned
StarsReturned == last.kind = "return" /\ last.reply = "stars"

\* C13: for every average of 0.0 to 5.0 in tenths, stars returns five glyphs:
\* a full one for each whole point, then a half one exactly when the tenths
\* left over are five or more, then empty ones.
C13_StarsFiveGlyphs ==
    StarsReturned =>
        LET a == last.data
            g == last.msgs
        IN  /\ Len(g) = 5
            /\ \A i \in 1..5 :
                  g[i] = IF i <= a \div 10 THEN "*"
                         ELSE IF i = a \div 10 + 1 /\ a % 10 >= 5 THEN "+"
                         ELSE "."
            /\ a = 50 => g = <<"*", "*", "*", "*", "*">>

\* C13 witness: stars has returned four full glyphs and a half one for 4.5.
C13_Witness ==
    StarsReturned /\ last.data = 45 /\ last.msgs = <<"*", "*", "*", "*", "+">>

\* _valid_date has returned
DateReturned == last.kind = "return" /\ last.reply = "_valid_date"

\* t has the literal form YYYY-MM-DD
C14_Literal(t) ==
    /\ Len(t) = 10
    /\ \A i \in {1, 2, 3, 4, 6, 7, 9, 10} : t[i] \in Digits
    /\ t[5] = "-" /\ t[8] = "-"

\* t, of the literal form, names a day of the calendar
C14_RealDate(t) ==
    LET y == NumVal(SubSeq(t, 1, 4))
        m == NumVal(SubSeq(t, 6, 7))
        d == NumVal(SubSeq(t, 9, 10))
    IN  y >= 1 /\ m \in 1..12 /\ d >= 1 /\ d <= DaysInMonth(y, m)

\* C14: _valid_date returns true exactly for the texts of the literal form
\* YYYY-MM-DD that name a day of the calendar, the 29th of February only in
\* leap years.
C14_ValidDateIsLiteral ==
    DateReturned =>
        (last.data = 1 <=> (C14_Literal(last.text) /\ C14_RealDate(last.text)))

\* C15 (store side): every experience row carries the id of a clinic row.
C15_RowsReferenceClinics ==
    \A i \in 1..Len(experiences) : \E r \in clinics : r.id = experiences[i].clinic_id

\* C15 (step side): in the step that handles a comment, the session is
\* cleared only together with the experience row being added; a row that is
\* added carries the id of the clinic row of the draft's triple, which is in
\* the table by then; and with the row added the session is idle, its draft
\* empty, and the user is told so.  A clinic row may be left without the
\* experience row, never the other way round.
C15_Step ==
    \A u \in Users :
        (state[u] = "waiting_for_comment" /\ IsMessage(last') /\ ~IsCancel(last'.text))
        => /\ (state'[u] # state[u] \/ draft'[u] # draft[u])
                 => Len(experiences') = Len(experiences) + 1
           /\ clinics \subseteq clinics'
           /\ experiences' # experiences
                 => /\ Len(experiences') = Len(experiences) + 1
                    /\ \E r \in C6_ClinicsOfDraft(clinics', draft[u]) :
                          experiences'[Len(experiences')].clinic_id = r.id
                    /\ state'[u] = NoState
                    /\ draft'[u] = EmptyDraft
                    /\ last'.reply = "saved"

\* C15: the commit resolves the clinic, then inserts the row with the
\* clinic's id, then clears the session.
C15_CommitOrder == []C15_RowsReferenceClinics /\ [][C15_Step]_vars

\* C15 witness: a commit has gone through after an earlier one had stopped
\* between the clinic row and the experience row.
C15_Witness ==
    /\ last.reply = "saved"
    /\ \A u \in Users : state[u] = NoState /\ draft[u] = EmptyDraft
    /\ Len(experiences) = 1
    /\ Cardinality(clinics) = 2

\* C16: when the step that handles a comment adds no experience row (the
\* store has raised), the user is sent a failure notice, and the session
\* stays in waiting_for_comment with its draft as it was.
C16_CommitFailureHandled ==
    [][\A u \in Users :
          (state[u] = "waiting_for_comment" /\ IsMessage(last') /\ ~IsCancel(last'.text)
             /\ Len(experiences') = Len(experiences))
          => /\ last'.reply = "failure_notice"
             /\ state'[u] = "waiting_for_comment"
             /\ draft'[u] = draft[u]]_vars

\* C17: every experience row holds an integer rating of 1 to 5, and so does
\* every draft that has a rating; the rating is in the draft exactly from
\* waiting_for_comment on; and an input in waiting_for_rating is taken exactly
\* when it reads as an integer of 1 to 5.
C17_RatingInRange ==
    /\ [](/\ \A i \in 1..Len(experiences) : experiences[i].rating \in 1..5
          /\ \A u \in Users :
                /\ "rating" \in DOMAIN draft[u] => draft[u]["rating"] \in 1..5
                /\ "rating" \in DOMAIN draft[u] => state[u] = "waiting_for_comment")
    /\ [][\A u \in Users :
             (state[u] = "waiting_for_rating" /\ IsMessage(last') /\ ~IsCancel(last'.text))
             => LET t == Strip(last'.text)
                IN  IF IsInt(t) /\ IntVal(t) \in 1..5
                    THEN /\ state'[u] = "waiting_for_comment"
                         /\ draft'[u]["rating"] = IntVal(t)
                    ELSE /\ state'[u] = state[u]
                         /\ draft'[u] = draft[u]]_vars

\* C17 witness: two flows have gone through waiting_for_rating and left their
\* rows, ratings included, in the store.
C17_Witness ==
    /\ Len(experiences) = 2
    /\ experiences[2].rating = 5
    /\ last.reply = "saved"
    /\ last.text = T_long

\* C18 (store side): no draft and no experience row holds an unknown token as
\* its end date.
C18_NoTokenStored ==
    /\ \A u \in Users :
          "end_date" \in DOMAIN draft[u] => Lower(draft[u]["end_date"]) \notin UNKNOWN_TOKENS
    /\ \A i \in 1..Len(experiences) : Lower(experiences[i].end_date) \notin UNKNOWN_TOKENS

\* C18 (step side): in waiting_for_end_date a message that is not a cancel is
\* taken exactly when its text, trimmed, is an unknown token (in any case of
\* letters) or a date _valid_date accepts; a token is stored as None, a date
\* as its trimmed text; anything else changes neither state nor draft.
C18_Step ==
    \A u \in Users :
        (state[u] = "waiting_for_end_date" /\ IsMessage(last') /\ ~IsCancel(last'.text))
        => LET t == Strip(last'.text)
           IN  IF Lower(t) \in UNKNOWN_TOKENS
               THEN /\ state'[u] = "waiting_for_payment"
                    /\ draft'[u]["end_date"] = None
               ELSE IF valid_date(t)
               THEN /\ state'[u] = "waiting_for_payment"
                    /\ draft'[u]["end_date"] = t
               ELSE /\ state'[u] = state[u]
                    /\ draft'[u] = draft[u]
                    /\ last'.reply = "bad_format"

\* C18: the end date is a date or absent, never the token typed for "unknown".
C18_EndDateNormalized == []C18_NoTokenStored /\ [][C18_Step]_vars

\* C18 witness: a flow answered with an unknown token has been committed, and
\* its row has no end date.
C18_Witness ==
    /\ Len(experiences) >= 1
    /\ experiences[1].end_date = None
    /\ experiences[1].start_date = T_date_leap

\* the clinics of province p, trimmed
C19_ClinicsOf(p) == {r \in clinics : r.province = Strip(p)}

\* the ratings of the rows of clinic cid, added up, and their number
C19_Sum(cid) ==
    SumOver([i \in 1..Len(experiences) |-> experiences[i].rating],
            ExperiencesOf(experiences, cid))
C19_Count(cid) == Cardinality(ExperiencesOf(experiences, cid))

\* a, in tenths, is the mean of clinic cid's ratings at one decimal, that is a
\* tenth nearest to it (0 without rows)
C19_IsMean(a, cid) ==
    LET n == C19_Count(cid)
        d == 10 * C19_Sum(cid) - a * n
    IN  IF n = 0 THEN a = 0 ELSE 2 * d <= n /\ 2 * d >= 0 - n

\* the provinces the summary is asked for
C19_Provinces == PROVINCES \cup {T_qom_padded}

\* C19: for every province, on every store content, each list
\* clinic_stats_by_province may return has one entry for each clinic of the
\* province and for no other clinic, a clinic without experiences included
\* with average 0 and count 0; an entry's count is the number of the clinic's
\* experience rows, its average their mean at one decimal; the averages do
\* not increase along the list.
C19_StatsPerClinic ==
    \A p \in C19_Provinces :
        /\ clinic_stats_by_province(clinics, experiences, p) # {}
        /\ \A q \in clinic_stats_by_province(clinics, experiences, p) :
              /\ Len(q) = Cardinality(C19_ClinicsOf(p))
              /\ {q[i].cid : i \in 1..Len(q)} = {r.id : r \in C19_ClinicsOf(p)}
              /\ \A i \in 1..Len(q) :
                    /\ q[i].count = C19_Count(q[i].cid)
                    /\ C19_IsMean(q[i].avg, q[i].cid)
                    /\ \E r \in C19_ClinicsOf(p) :
                          r.id = q[i].cid /\ r.name = q[i].name /\ r.city = q[i].city
              /\ \A i \in 1..(Len(q) - 1) : q[i].avg >= q[i + 1].avg

\* C19 witness: the summary of a province has been sent with a clinic of
\* average 3.5 ahead of a clinic without experiences.
C19_Witness ==
    /\ last.reply = "summary"
    /\ Len(last.msgs) = 2
    /\ last.msgs[1].glyphs = <<"*", "*", "*", "+", ".">> /\ last.msgs[1].count = 2
    /\ last.msgs[2].glyphs = <<".", ".", ".", ".", ".">> /\ last.msgs[2].count = 0

\* C20: the selection of a clinic the table holds hands no empty message to
\* the transport: every message is delivered, the callback is answered, and
\* the session is idle afterwards.
C20_NoEmptyMessage ==
    Rendered =>
        /\ last.reply = "answered"
        /\ \A i \in 1..Len(last.msgs) : last.msgs[i] # <<>>
        /\ \A u \in Users : state[u] = NoState /\ draft[u] = EmptyDraft

====
